---- MODULE Spec2Model ----
(***************************************************************************)
(* Model of the prometheus receiver's scrape transaction                   *)
(* (receiver/prometheusreceiver/internal/transaction.go), of createNode,   *)
(* and of the Jaeger gRPC exporter factory.                                *)
(*                                                                         *)
(* Go strings are sequences of one-character strings, so that              *)
(* strings.Split and the emptiness tests are computed, not assumed.        *)
(* A Go pointer is a sequence of length 0 (nil) or 1 (the pointee).        *)
(***************************************************************************)
EXTENDS Integers, Sequences, FiniteSets, TLC

\* ------------------------------------------------------------------ bounds
MaxOps == 3            \* Add/Commit/Rollback calls issued on one transaction
MaxInstanceLen == 3    \* length of the instance strings given to createNode
MaxEndpointLen == 2    \* length of the endpoint strings of exporter configs

\* ----------------------------------------------------------- Go strings
EmptyStr == <<>>
Colon == ":"

\* all strings over alphabet of length at most n
RECURSIVE StringsUpTo(_, _)
StringsUpTo(alphabet, n) ==
  IF n = 0 THEN {<<>>}
  ELSE LET shorter == StringsUpTo(alphabet, n - 1)
       IN  shorter \cup {Append(s, c) : s \in {x \in shorter : Len(x) = n - 1}, c \in alphabet}

\* strings.Split(s, sep) for a one-character separator: the pieces of s
\* between the separators; always at least one piece.
RECURSIVE SplitFrom(_, _, _, _)
SplitFrom(s, sep, i, cur) ==
  IF i > Len(s) THEN <<cur>>
  ELSE IF s[i] = sep THEN <<cur>> \o SplitFrom(s, sep, i + 1, <<>>)
  ELSE SplitFrom(s, sep, i + 1, Append(cur, s[i]))

Split(s, sep) == SplitFrom(s, sep, 1, <<>>)

\* ------------------------------------------------------------- constants
portAttr == "port"
schemeAttr == "scheme"
DefaultPort == <<"8", "0">>

\* prometheus' reserved label names (model.MetricNameLabel, JobLabel, ...)
MetricNameLabel == "__name__"
JobLabel == "job"
InstanceLabel == "instance"

errMetricNameNotFound == "errMetricNameNotFound"
errTransactionAborted == "errTransactionAborted"
errNoJobInstance == "errNoJobInstance"
errMetadataUnknown == "errMetadataUnknown"   \* error of MetadataService.Get
errBuild == "errBuild"                       \* error of metricBuilder.Build
errConsume == "errConsume"                   \* error of the downstream sink
nil == "nil"

NaN == "NaN"

\* ---------------------------------------------------------------- inputs
Values == {NaN, "1.0", "2.0"}
Schemes == {<<"http">>}

\* labels.Labels: a label set is a function from the names present to values
FullLabels ==
  (MetricNameLabel :> <<"m">>) @@ (JobLabel :> <<"j">>)
    @@ (InstanceLabel :> <<"h", ":", "9">>)

Without(ls, name) == [n \in DOMAIN ls \ {name} |-> ls[n]]

\* the label sets of the samples: a complete one, the same for another job
\* and for an instance without port, and those with the metric name, the
\* job or the instance absent or empty
Labels ==
  { FullLabels,
    [FullLabels EXCEPT ![JobLabel] = <<"k">>],
    [FullLabels EXCEPT ![InstanceLabel] = <<"h">>],
    Without(FullLabels, MetricNameLabel),
    Without(FullLabels, JobLabel),
    [FullLabels EXCEPT ![JobLabel] = EmptyStr],
    Without(FullLabels, InstanceLabel),
    [FullLabels EXCEPT ![InstanceLabel] = EmptyStr],
    Without(Without(FullLabels, JobLabel), InstanceLabel) }

NoLabels == [n \in {} |-> EmptyStr]

\* labels.Labels.Get: the value of the label, "" when it is absent
Get(ls, name) == IF name \in DOMAIN ls THEN ls[name] ELSE EmptyStr

\* IsNaN without the test: no value is taken for NaN
IsNaN_Never(v) == FALSE

\* math.IsNaN
IsNaN(v) == v = NaN

\* ------------------------------------------------------------- variables
VARIABLES
  \* fields of transaction
  isNew, job, instance, jobsMap, node, metricBuilder,
  ctxDone,        \* tr.ctx.Done() is closed
  \* collaborators
  sink,           \* the MetricsData handed to sink.ConsumeMetricsData, in order
  msGets,         \* number of MetadataService.Get calls
  jobsMapGets,    \* the (job, instance) keys given to JobsMap.get, in order
  \* the calls issued on the transaction
  nOps,           \* number of Add/AddFast/Commit/Rollback calls so far
  lastCall,       \* the latest call: operation, arguments, result
  aborted,        \* some AddFast has returned errTransactionAborted
  rolledBack,     \* Rollback has been called
  boundBy,        \* the labels of the add that bound the transaction (or none)
  \* createNode applied to drawn inputs
  cnIn, cnOut,
  \* Jaeger gRPC exporter factory
  expCfg, expOut

txVars == <<isNew, job, instance, jobsMap, node, metricBuilder>>
envVars == <<sink, msGets, jobsMapGets>>
obsVars == <<nOps, lastCall, aborted, rolledBack, boundBy>>
trVars == <<txVars, ctxDone, envVars, obsVars>>
cnVars == <<cnIn, cnOut>>
facVars == <<expCfg, expOut>>
vars == <<trVars, cnVars, facVars>>

\* ------------------------------------------------------------ createNode
\* createNode taking the port only from a third piece on (> for >=)
createNode_PortNeedsThree(j, inst, scheme) ==
  LET splitted == Split(inst, Colon)
      host == splitted[1]
      port == IF Len(splitted) > 2 THEN splitted[2] ELSE DefaultPort
  IN  [ ServiceInfo |-> [Name |-> j],
        Identifier  |-> [HostName |-> host],
        Attributes  |-> (portAttr :> port) @@ (schemeAttr :> scheme) ]

createNode(j, inst, scheme) ==
  LET splitted == Split(inst, Colon)
      host == splitted[1]
      port == IF Len(splitted) >= 2 THEN splitted[2] ELSE DefaultPort
  IN  [ ServiceInfo |-> [Name |-> j],
        Identifier  |-> [HostName |-> host],
        Attributes  |-> (portAttr :> port) @@ (schemeAttr :> scheme) ]

\* ------------------------------------------------- external collaborators
\* MetadataService.Get(job, instance): an error, or the metadata cache of
\* the target, of which the transaction reads the shared scheme label.
MetadataResults ==
  {[err |-> errMetadataUnknown, scheme |-> EmptyStr]}
    \cup {[err |-> nil, scheme |-> s] : s \in Schemes}

\* newMetricBuilder: a builder holding no data point
newMetricBuilder == <<>>

\* metricBuilder.AddDataPoint: a data point without a metric name is
\* refused, any other is appended to the builder.
AddDataPoint(b, ls, v) ==
  IF Get(ls, MetricNameLabel) = EmptyStr
  THEN [err |-> errMetricNameNotFound, builder |-> b]
  ELSE [err |-> nil, builder |-> Append(b, v)]

\* metricBuilder.Build: fails, or yields the metrics of the data points
Build(b, fails) ==
  IF fails THEN [err |-> errBuild, metrics |-> <<>>]
  ELSE [err |-> nil, metrics |-> b]

\* MetricsAdjuster.AdjustMetrics: the adjuster keeps some of the metrics,
\* in order (keep: the positions it keeps), and drops the others.
RECURSIVE KeepFrom(_, _, _)
KeepFrom(metrics, keep, i) ==
  IF i > Len(metrics) THEN <<>>
  ELSE (IF i \in keep THEN <<metrics[i]>> ELSE <<>>) \o KeepFrom(metrics, keep, i + 1)

AdjustMetrics(metrics, keep) == KeepFrom(metrics, keep, 1)

\* --------------------------------------------------------- transaction
NoJobsMap == <<>>
SomeJobsMap == <<"jobsMap">>

NoCall ==
  [op |-> "none", ls |-> NoLabels, v |-> NaN, ret |-> nil,
   built |-> <<>>, adjusted |-> <<>>,
   buildFails |-> FALSE, consumeErr |-> nil]

\* the cancellation looked at only while the transaction is New
CtxIsDone_OnlyWhenNew == ctxDone /\ isNew

\* case <-tr.ctx.Done()
CtxIsDone == ctxDone

\* initTransaction testing the job label only
initTransaction_JobOnly(ls, mc) ==
  LET j == Get(ls, JobLabel)
      i == Get(ls, InstanceLabel)
      same == [isNew |-> isNew, job |-> job, instance |-> instance,
               node |-> node, metricBuilder |-> metricBuilder]
  IN  IF j = EmptyStr
      THEN [err |-> errNoJobInstance, gets |-> 0] @@ same
      ELSE IF mc.err # nil
      THEN [err |-> mc.err, gets |-> 1] @@ same
      ELSE [err |-> nil, gets |-> 1,
            isNew |-> FALSE,
            job |-> IF jobsMap # NoJobsMap THEN j ELSE job,
            instance |-> IF jobsMap # NoJobsMap THEN i ELSE instance,
            node |-> <<createNode(j, i, mc.scheme)>>,
            metricBuilder |-> <<newMetricBuilder>>]

\* initTransaction that does not keep the job and the instance
initTransaction_KeepsNoKey(ls, mc) ==
  LET j == Get(ls, JobLabel)
      i == Get(ls, InstanceLabel)
      same == [isNew |-> isNew, job |-> job, instance |-> instance,
               node |-> node, metricBuilder |-> metricBuilder]
  IN  IF j = EmptyStr \/ i = EmptyStr
      THEN [err |-> errNoJobInstance, gets |-> 0] @@ same
      ELSE IF mc.err # nil
      THEN [err |-> mc.err, gets |-> 1] @@ same
      ELSE [err |-> nil, gets |-> 1,
            isNew |-> FALSE,
            job |-> job,
            instance |-> instance,
            node |-> <<createNode(j, i, mc.scheme)>>,
            metricBuilder |-> <<newMetricBuilder>>]

\* initTransaction that binds the transaction although the lookup failed
initTransaction_BindsOnError(ls, mc) ==
  LET j == Get(ls, JobLabel)
      i == Get(ls, InstanceLabel)
      same == [isNew |-> isNew, job |-> job, instance |-> instance,
               node |-> node, metricBuilder |-> metricBuilder]
  IN  IF j = EmptyStr \/ i = EmptyStr
      THEN [err |-> errNoJobInstance, gets |-> 0] @@ same
      ELSE [err |-> mc.err, gets |-> 1,
            isNew |-> FALSE,
            job |-> IF jobsMap # NoJobsMap THEN j ELSE job,
            instance |-> IF jobsMap # NoJobsMap THEN i ELSE instance,
            node |-> <<createNode(j, i, mc.scheme)>>,
            metricBuilder |-> <<newMetricBuilder>>]

\* initTransaction(ls) with mc the answer MetadataService.Get would give:
\* the error returned, the number of metadata lookups made and the fields
\* of the transaction afterwards.
initTransaction(ls, mc) ==
  LET j == Get(ls, JobLabel)
      i == Get(ls, InstanceLabel)
      same == [isNew |-> isNew, job |-> job, instance |-> instance,
               node |-> node, metricBuilder |-> metricBuilder]
  IN  IF j = EmptyStr \/ i = EmptyStr
      THEN [err |-> errNoJobInstance, gets |-> 0] @@ same
      ELSE IF mc.err # nil
      THEN [err |-> mc.err, gets |-> 1] @@ same
      ELSE [err |-> nil, gets |-> 1,
            isNew |-> FALSE,
            job |-> IF jobsMap # NoJobsMap THEN j ELSE job,
            instance |-> IF jobsMap # NoJobsMap THEN i ELSE instance,
            node |-> <<createNode(j, i, mc.scheme)>>,
            metricBuilder |-> <<newMetricBuilder>>]

\* AddFast without the test of tr.isNew: every add initialises
AddFastResult_AlwaysInit(ls, v, mc) ==
  LET same == [isNew |-> isNew, job |-> job, instance |-> instance,
               node |-> node, metricBuilder |-> metricBuilder]
  IN  IF IsNaN(v) THEN [err |-> nil, gets |-> 0] @@ same
      ELSE IF CtxIsDone THEN [err |-> errTransactionAborted, gets |-> 0] @@ same
      ELSE LET it == initTransaction(ls, mc)
           IN  IF it.err # nil THEN it
               ELSE LET added == AddDataPoint(it.metricBuilder[1], ls, v)
                    IN  [it EXCEPT !.err = added.err,
                                   !.metricBuilder = <<added.builder>>]

\* AddFast(ls, _, t, v): the error returned, the metadata lookups made and
\* the fields of the transaction afterwards.
AddFastResult(ls, v, mc) ==
  LET same == [isNew |-> isNew, job |-> job, instance |-> instance,
               node |-> node, metricBuilder |-> metricBuilder]
  IN  IF IsNaN(v) THEN [err |-> nil, gets |-> 0] @@ same
      ELSE IF CtxIsDone THEN [err |-> errTransactionAborted, gets |-> 0] @@ same
      ELSE LET it == IF isNew THEN initTransaction(ls, mc)
                     ELSE [err |-> nil, gets |-> 0] @@ same
           IN  IF it.err # nil THEN it
               ELSE LET added == AddDataPoint(it.metricBuilder[1], ls, v)
                    IN  [it EXCEPT !.err = added.err,
                                   !.metricBuilder = <<added.builder>>]

AddFastAs(opName, ls, v, mc) ==
  /\ nOps < MaxOps
  /\ LET r == AddFastResult(ls, v, mc)
     IN  /\ isNew' = r.isNew
         /\ job' = r.job
         /\ instance' = r.instance
         /\ node' = r.node
         /\ metricBuilder' = r.metricBuilder
         /\ msGets' = msGets + r.gets
         /\ lastCall' = [NoCall EXCEPT !.op = opName, !.ls = ls, !.v = v, !.ret = r.err]
         /\ aborted' = (aborted \/ r.err = errTransactionAborted)
         /\ boundBy' = IF isNew /\ ~r.isNew THEN <<ls>> ELSE boundBy
  /\ nOps' = nOps + 1
  /\ UNCHANGED <<jobsMap, ctxDone, sink, jobsMapGets, rolledBack, cnVars, facVars>>

\* AddFast(ls, ref, t, v)
AddFast(ls, v, mc) == AddFastAs("AddFast", ls, v, mc)

\* Add(l, t, v) returns (0, tr.AddFast(l, 0, t, v))
Add(ls, v, mc) == AddFastAs("Add", ls, v, mc)

\* Commit handing the sink the batch as built, not as adjusted
CommitResult_SendsUnadjusted(buildFails, keep, consumeErr) ==
  IF isNew
  THEN [err |-> nil, built |-> <<>>, adjusted |-> <<>>, keys |-> <<>>, sent |-> <<>>]
  ELSE LET b == Build(metricBuilder[1], buildFails)
       IN  IF b.err # nil
           THEN [err |-> b.err, built |-> <<>>, adjusted |-> <<>>, keys |-> <<>>, sent |-> <<>>]
           ELSE LET metrics == IF jobsMap # NoJobsMap
                               THEN AdjustMetrics(b.metrics, keep)
                               ELSE b.metrics
                    keys == IF jobsMap # NoJobsMap THEN <<(<<job, instance>>)>> ELSE <<>>
                IN  IF Len(b.metrics) > 0
                    THEN [err |-> consumeErr, built |-> <<b.metrics>>,
                          adjusted |-> <<metrics>>, keys |-> keys,
                          sent |-> <<[Node |-> node, Metrics |-> b.metrics]>>]
                    ELSE [err |-> nil, built |-> <<b.metrics>>,
                          adjusted |-> <<metrics>>, keys |-> keys, sent |-> <<>>]

\* Commit without the early return of a New transaction: the build of the
\* builder that was never made fails
CommitResult_BuildsWhenNew(buildFails, keep, consumeErr) ==
  LET b == IF isNew THEN [err |-> errBuild, metrics |-> <<>>]
           ELSE Build(metricBuilder[1], buildFails)
  IN  IF b.err # nil
      THEN [err |-> b.err, built |-> <<>>, adjusted |-> <<>>, keys |-> <<>>, sent |-> <<>>]
      ELSE LET metrics == IF jobsMap # NoJobsMap
                          THEN AdjustMetrics(b.metrics, keep)
                          ELSE b.metrics
               keys == IF jobsMap # NoJobsMap THEN <<(<<job, instance>>)>> ELSE <<>>
           IN  IF Len(metrics) > 0
               THEN [err |-> consumeErr, built |-> <<b.metrics>>,
                     adjusted |-> <<metrics>>, keys |-> keys,
                     sent |-> <<[Node |-> node, Metrics |-> metrics]>>]
               ELSE [err |-> nil, built |-> <<b.metrics>>,
                     adjusted |-> <<metrics>>, keys |-> keys, sent |-> <<>>]

\* Commit returning nil whatever the sink returned
CommitResult_SwallowsSinkError(buildFails, keep, consumeErr) ==
  IF isNew
  THEN [err |-> nil, built |-> <<>>, adjusted |-> <<>>, keys |-> <<>>, sent |-> <<>>]
  ELSE LET b == Build(metricBuilder[1], buildFails)
       IN  IF b.err # nil
           THEN [err |-> b.err, built |-> <<>>, adjusted |-> <<>>, keys |-> <<>>, sent |-> <<>>]
           ELSE LET metrics == IF jobsMap # NoJobsMap
                               THEN AdjustMetrics(b.metrics, keep)
                               ELSE b.metrics
                    keys == IF jobsMap # NoJobsMap THEN <<(<<job, instance>>)>> ELSE <<>>
                IN  IF Len(metrics) > 0
                    THEN [err |-> nil, built |-> <<b.metrics>>,
                          adjusted |-> <<metrics>>, keys |-> keys,
                          sent |-> <<[Node |-> node, Metrics |-> metrics]>>]
                    ELSE [err |-> nil, built |-> <<b.metrics>>,
                          adjusted |-> <<metrics>>, keys |-> keys, sent |-> <<>>]

\* Commit(): the error returned, the batch built, the batch after
\* adjustment, the JobsMap keys read and the MetricsData handed to the sink.
\*   buildFails: metricBuilder.Build returns an error
\*   keep:       the positions of the metrics the adjuster keeps
\*   consumeErr: what sink.ConsumeMetricsData returns
CommitResult(buildFails, keep, consumeErr) ==
  IF isNew
  THEN [err |-> nil, built |-> <<>>, adjusted |-> <<>>, keys |-> <<>>, sent |-> <<>>]
  ELSE LET b == Build(metricBuilder[1], buildFails)
       IN  IF b.err # nil
           THEN [err |-> b.err, built |-> <<>>, adjusted |-> <<>>, keys |-> <<>>, sent |-> <<>>]
           ELSE LET metrics == IF jobsMap # NoJobsMap
                               THEN AdjustMetrics(b.metrics, keep)
                               ELSE b.metrics
                    keys == IF jobsMap # NoJobsMap THEN <<(<<job, instance>>)>> ELSE <<>>
                IN  IF Len(metrics) > 0
                    THEN [err |-> consumeErr, built |-> <<b.metrics>>,
                          adjusted |-> <<metrics>>, keys |-> keys,
                          sent |-> <<[Node |-> node, Metrics |-> metrics]>>]
                    ELSE [err |-> nil, built |-> <<b.metrics>>,
                          adjusted |-> <<metrics>>, keys |-> keys, sent |-> <<>>]

Commit(buildFails, keep, consumeErr) ==
  /\ nOps < MaxOps
  /\ LET r == CommitResult(buildFails, keep, consumeErr)
     IN  /\ sink' = sink \o r.sent
         /\ jobsMapGets' = jobsMapGets \o r.keys
         /\ lastCall' = [NoCall EXCEPT !.op = "Commit", !.ret = r.err,
                                       !.built = r.built, !.adjusted = r.adjusted,
                                       !.buildFails = buildFails,
                                       !.consumeErr = consumeErr]
  /\ nOps' = nOps + 1
  /\ UNCHANGED <<txVars, ctxDone, msGets, aborted, rolledBack, boundBy, cnVars, facVars>>

\* Rollback() returns nil
RollbackResult == [err |-> nil]

Rollback ==
  /\ nOps < MaxOps
  /\ lastCall' = [NoCall EXCEPT !.op = "Rollback", !.ret = RollbackResult.err]
  /\ rolledBack' = TRUE
  /\ nOps' = nOps + 1
  /\ UNCHANGED <<txVars, ctxDone, envVars, aborted, boundBy, cnVars, facVars>>

\* the context of the scrape is cancelled
Cancel ==
  /\ ~ctxDone
  /\ ctxDone' = TRUE
  /\ UNCHANGED <<txVars, envVars, obsVars, cnVars, facVars>>

\* newTransaction(ctx, jobsMap, ms, sink, logger)
newTransaction(jm) ==
  /\ isNew = TRUE
  /\ job = EmptyStr
  /\ instance = EmptyStr
  /\ jobsMap = jm
  /\ node = <<>>
  /\ metricBuilder = <<>>
  /\ ctxDone = FALSE
  /\ sink = <<>>
  /\ msGets = 0
  /\ jobsMapGets = <<>>
  /\ nOps = 0
  /\ lastCall = NoCall
  /\ aborted = FALSE
  /\ rolledBack = FALSE
  /\ boundBy = <<>>

NoNodeCall ==
  /\ cnIn = [job |-> EmptyStr, instance |-> EmptyStr, scheme |-> EmptyStr]
  /\ cnOut = <<>>

NoFactoryCall ==
  /\ expCfg = <<>>
  /\ expOut = <<>>

Init ==
  /\ \E jm \in {NoJobsMap, SomeJobsMap} : newTransaction(jm)
  /\ NoNodeCall
  /\ NoFactoryCall

BuilderLen == IF metricBuilder = <<>> THEN 0 ELSE Len(metricBuilder[1])

\* what Build and the sink may answer; a New transaction calls neither
BuildAnswers == IF isNew THEN {FALSE} ELSE BOOLEAN
ConsumeAnswers == IF isNew THEN {nil} ELSE {nil, errConsume}

\* the answers MetadataService.Get may give; only a New transaction asks
MetadataAnswers ==
  IF isNew THEN MetadataResults ELSE {[err |-> nil, scheme |-> EmptyStr]}

Next ==
  \/ \E ls \in Labels, v \in Values, mc \in MetadataAnswers : AddFast(ls, v, mc)
  \/ \E ls \in Labels, v \in Values, mc \in MetadataAnswers : Add(ls, v, mc)
  \/ \E buildFails \in BuildAnswers, keep \in SUBSET (1..BuilderLen), consumeErr \in ConsumeAnswers :
       Commit(buildFails, keep, consumeErr)
  \/ Rollback
  \/ Cancel

Spec == Init /\ [][Next]_vars

\* ------------------------------------------- createNode on drawn inputs
InstanceAlphabet == {"h", "9", Colon}
NodeInstances == StringsUpTo(InstanceAlphabet, MaxInstanceLen)
NodeJobs == {EmptyStr, <<"j">>, <<"k">>}
NodeSchemes == {EmptyStr, <<"http">>, <<"https">>}

CreateNodeCall ==
  /\ cnOut = <<>>
  /\ cnOut' = <<createNode(cnIn.job, cnIn.instance, cnIn.scheme)>>
  /\ UNCHANGED <<cnIn, trVars, facVars>>

InitNode ==
  /\ newTransaction(NoJobsMap)
  /\ NoFactoryCall
  /\ cnIn \in [job : NodeJobs, instance : NodeInstances, scheme : NodeSchemes]
  /\ cnOut = <<>>

NextNode == CreateNodeCall

SpecNode == InitNode /\ [][NextNode]_vars

\* --------------------------------------- Jaeger gRPC exporter factory
\* The value of "type" key in configuration.
typeStr == <<"jaeger_grpc">>

EndpointAlphabet == {"a", "1", Colon}
Endpoints == StringsUpTo(EndpointAlphabet, MaxEndpointLen)
ExporterNames == {typeStr, typeStr \o <<"/", "1">>, typeStr \o <<"/", "2">>}

\* Config: ExporterSettings (TypeVal, NameVal) and Endpoint
ExporterConfigs == [TypeVal : {typeStr}, NameVal : ExporterNames, Endpoint : Endpoints]

\* Factory.CreateDefaultConfig
CreateDefaultConfigResult ==
  [TypeVal |-> typeStr, NameVal |-> typeStr, Endpoint |-> EmptyStr]

\* ExporterSettings.Name
Name(cfg) == cfg.NameVal

\* fmt.Errorf("%q config requires a non-empty \"endpoint\"", name)
EndpointRequired(name) ==
  <<"\"">> \o name \o <<"\"", " config requires a non-empty ", "\"", "endpoint", "\"">>

errNew == <<"jaeger exporter: cannot connect">>   \* the error of New

\* New(config, endpoint): the exporter for the endpoint, or an error
New(cfg, endpoint, fails) ==
  IF fails THEN [exp |-> <<>>, err |-> <<errNew>>]
  ELSE [exp |-> <<[endpoint |-> endpoint]>>, err |-> <<>>]

\* CreateTraceExporter naming the type of the config, not its name
CreateTraceExporterResult_NamesType(cfg, newFails) ==
  IF cfg.Endpoint = EmptyStr
  THEN [exp |-> <<>>, err |-> <<EndpointRequired(cfg.TypeVal)>>]
  ELSE LET r == New(cfg, cfg.Endpoint, newFails)
       IN  IF r.err # <<>> THEN [exp |-> <<>>, err |-> r.err]
           ELSE [exp |-> r.exp, err |-> <<>>]

\* Factory.CreateTraceExporter(logger, config): (exporter, error), each a
\* pointer; newFails: New returns an error.
CreateTraceExporterResult(cfg, newFails) ==
  IF cfg.Endpoint = EmptyStr
  THEN [exp |-> <<>>, err |-> <<EndpointRequired(Name(cfg))>>]
  ELSE LET r == New(cfg, cfg.Endpoint, newFails)
       IN  IF r.err # <<>> THEN [exp |-> <<>>, err |-> r.err]
           ELSE [exp |-> r.exp, err |-> <<>>]

\* configerror.ErrDataTypeIsNotSupported
ErrDataTypeIsNotSupported == <<"telemetry type is not supported">>

\* CreateMetricsExporter making the exporter of the traces for the metrics
CreateMetricsExporterResult_AsForTraces(cfg) ==
  CreateTraceExporterResult(cfg, FALSE)

\* Factory.CreateMetricsExporter(logger, cfg): (exporter, error)
CreateMetricsExporterResult(cfg) ==
  [exp |-> <<>>, err |-> <<ErrDataTypeIsNotSupported>>]

CreateDefaultConfig ==
  /\ expCfg' = <<CreateDefaultConfigResult>>
  /\ expOut' = <<>>
  /\ UNCHANGED <<trVars, cnVars>>

CreateTraceExporter(newFails) ==
  /\ expCfg # <<>>
  /\ LET r == CreateTraceExporterResult(expCfg[1], newFails)
     IN  expOut' = <<[op |-> "CreateTraceExporter", config |-> expCfg[1],
                      exp |-> r.exp, err |-> r.err]>>
  /\ UNCHANGED <<expCfg, trVars, cnVars>>

CreateMetricsExporter ==
  /\ expCfg # <<>>
  /\ LET r == CreateMetricsExporterResult(expCfg[1])
     IN  expOut' = <<[op |-> "CreateMetricsExporter", config |-> expCfg[1],
                      exp |-> r.exp, err |-> r.err]>>
  /\ UNCHANGED <<expCfg, trVars, cnVars>>

\* ----------------------------------------- example components (config)
\* MultiProtoReceiverOneCfg: the Disabled flag of one protocol
ProtocolNames == {"http", "tcp", "udp"}

\* the Protocols maps: any protocols, each disabled or not
ProtocolMaps ==
  UNION { [D -> [Disabled : BOOLEAN]] : D \in SUBSET ProtocolNames }

\* the orders in which a range over the map may visit its keys
Orders(m) ==
  {o \in [1..Cardinality(DOMAIN m) -> DOMAIN m] :
     \A i, k \in 1..Cardinality(DOMAIN m) : i # k => o[i] # o[k]}

\* IsEnabled deciding on the first protocol the range visits
IsEnabledFrom_FirstOnly(protocols, order, i) ==
  IF i > Len(order) THEN FALSE
  ELSE ~protocols[order[i]].Disabled

\* MultiProtoReceiver.IsEnabled, the range visiting the protocols in order
\* from position i: true at the first protocol that is not disabled
RECURSIVE IsEnabledFrom(_, _, _)
IsEnabledFrom(protocols, order, i) ==
  IF i > Len(order) THEN FALSE
  ELSE IF ~protocols[order[i]].Disabled THEN TRUE
  ELSE IsEnabledFrom(protocols, order, i + 1)

IsEnabled(order) ==
  /\ expOut' = <<[op |-> "IsEnabled", order |-> order,
                  Protocols |-> expOut[1].Protocols,
                  enabled |-> IsEnabledFrom(expOut[1].Protocols, order, 1)]>>
  /\ UNCHANGED <<expCfg, trVars, cnVars>>

\* a MultiProtoReceiver config is loaded with some protocols
LoadMultiProtoReceiver(protocols) ==
  /\ expOut' = <<[op |-> "MultiProtoReceiver", Protocols |-> protocols]>>
  /\ UNCHANGED <<expCfg, trVars, cnVars>>

HasProtocols == expOut # <<>> /\ expOut[1].op \in {"MultiProtoReceiver", "IsEnabled"}

\* the factories of the source
Factories ==
  {"jaegergrpcexporter.Factory", "ExampleReceiverFactory",
   "MultiProtoReceiverFactory", "ExampleExporterFactory",
   "ExampleProcessorFactory", "ExampleExtensionFactory"}

\* Type() of each factory
FactoryType(f) ==
  CASE f = "jaegergrpcexporter.Factory" -> typeStr
    [] f = "ExampleReceiverFactory"     -> <<"examplereceiver">>
    [] f = "MultiProtoReceiverFactory"  -> <<"multireceiver">>
    [] f = "ExampleExporterFactory"     -> <<"exampleexporter">>
    [] f = "ExampleProcessorFactory"    -> <<"exampleprocessor">>
    [] f = "ExampleExtensionFactory"    -> <<"exampleextension">>

\* CreateDefaultConfig() of each factory; a field the literal does not set
\* has Go's zero value (the empty string)
FactoryDefaultConfig(f) ==
  CASE f = "jaegergrpcexporter.Factory" -> CreateDefaultConfigResult
    [] f = "ExampleReceiverFactory" ->
         [TypeVal |-> <<"examplereceiver">>, NameVal |-> EmptyStr,
          Endpoint |-> <<"localhost:1000">>, ExtraSetting |-> <<"some string">>]
    [] f = "MultiProtoReceiverFactory" ->
         [TypeVal |-> <<"multireceiver">>, NameVal |-> EmptyStr,
          Protocols |-> ("http" :> [Disabled |-> FALSE]) @@ ("tcp" :> [Disabled |-> FALSE])]
    [] f = "ExampleExporterFactory" ->
         [TypeVal |-> EmptyStr, NameVal |-> EmptyStr,
          ExtraSetting |-> <<"some export string">>]
    [] f = "ExampleProcessorFactory" ->
         [TypeVal |-> EmptyStr, NameVal |-> EmptyStr,
          ExtraSetting |-> <<"some export string">>]
    [] f = "ExampleExtensionFactory" ->
         [TypeVal |-> EmptyStr, NameVal |-> EmptyStr,
          ExtraSetting |-> <<"extra string setting">>]

\* Type() of a config: its TypeVal
ConfigType(cfg) == cfg.TypeVal

FactoryCreateDefaultConfig(f) ==
  /\ expOut' = <<[op |-> "CreateDefaultConfig", factory |-> f,
                  config |-> FactoryDefaultConfig(f)]>>
  /\ UNCHANGED <<expCfg, trVars, cnVars>>

InitFactory ==
  /\ newTransaction(NoJobsMap)
  /\ NoNodeCall
  /\ expCfg \in {<<>>} \cup {<<c>> : c \in ExporterConfigs}
  /\ expOut = <<>>

NextFactory ==
  \/ CreateDefaultConfig
  \/ \E newFails \in BOOLEAN : CreateTraceExporter(newFails)
  \/ CreateMetricsExporter
  \/ \E f \in Factories : FactoryCreateDefaultConfig(f)
  \/ \E protocols \in ProtocolMaps : LoadMultiProtoReceiver(protocols)
  \/ HasProtocols /\ \E order \in Orders(expOut[1].Protocols) : IsEnabled(order)

SpecFactory == InitFactory /\ [][NextFactory]_vars

\* =====================================================================
\* Properties
\* =====================================================================
IsAddCall(c) == c.op \in {"Add", "AddFast"}

\* the label is absent from the label set, or present with an empty value
Missing(ls, name) == name \notin DOMAIN ls \/ ls[name] = EmptyStr

\* s occurs in msg as a contiguous piece
Contains(msg, s) ==
  \E i \in 1..(Len(msg) - Len(s) + 1) : SubSeq(msg, i, i + Len(s) - 1) = s

\* C1: Commit on a transaction that is still New (no add, or only adds that
\* were ignored or failed) returns nil and hands nothing to the sink.
C1_CommitOnNewIsEmptyScrape ==
  [][ (nOps' = nOps + 1 /\ lastCall'.op = "Commit" /\ isNew)
        => (lastCall'.ret = nil /\ sink' = sink /\ UNCHANGED txVars) ]_vars

\* a Commit has returned on a transaction that is New after an add that
\* reached the metadata lookup and failed there
C1_Witness ==
  /\ lastCall.op = "Commit"
  /\ isNew
  /\ msGets >= 1
  /\ lastCall.ret = nil

\* C2: an Add/AddFast whose value is NaN returns nil and changes no field of
\* the transaction and calls no collaborator, whatever the labels, the
\* state and the context.
C2_NaNIsDropped ==
  [][ (nOps' = nOps + 1 /\ IsAddCall(lastCall') /\ lastCall'.v = NaN)
        => (lastCall'.ret = nil /\ UNCHANGED <<txVars, envVars>>) ]_vars

\* a NaN sample was given to a Bound transaction whose context is cancelled
C2_Witness ==
  /\ IsAddCall(lastCall)
  /\ lastCall.v = NaN
  /\ ctxDone
  /\ ~isNew
  /\ Missing(lastCall.ls, JobLabel)

\* C3: an Add/AddFast of a value that is not NaN, issued when the context
\* is already cancelled, returns errTransactionAborted, New or Bound, and
\* neither binds a target nor appends the sample.
C3_CancelledAddAborts ==
  [][ (nOps' = nOps + 1 /\ IsAddCall(lastCall') /\ lastCall'.v # NaN /\ ctxDone)
        => (lastCall'.ret = errTransactionAborted /\ UNCHANGED <<txVars, envVars>>) ]_vars

\* an add was aborted on a Bound transaction that holds a data point
C3_Witness ==
  /\ IsAddCall(lastCall)
  /\ lastCall.ret = errTransactionAborted
  /\ ~isNew
  /\ BuilderLen >= 1

\* C4 (as claimed): once an add has returned errTransactionAborted, no
\* later call hands a batch to the sink.
C4_AbortedIsTerminal ==
  [][ aborted => sink' = sink ]_vars

\* C5 (as claimed): Rollback hands nothing to the sink, and after a
\* Rollback no call hands a batch to the sink.
C5_RolledBackIsTerminal ==
  [][ (rolledBack \/ rolledBack') => sink' = sink ]_vars

\* C6 (as claimed): over any sequence of calls on one transaction the sink
\* is called at most once.
C6_AtMostOneDelivery ==
  Len(sink) <= 1

\* C7: on a New transaction whose context is not cancelled, an add of a
\* value that is not NaN whose job or instance label is empty or absent
\* returns errNoJobInstance without a metadata lookup, a builder or a data
\* point.
C7_MissingJobOrInstance ==
  [][ (/\ nOps' = nOps + 1
       /\ IsAddCall(lastCall')
       /\ lastCall'.v # NaN
       /\ isNew
       /\ ~ctxDone
       /\ (Missing(lastCall'.ls, JobLabel) \/ Missing(lastCall'.ls, InstanceLabel)))
        => (/\ lastCall'.ret = errNoJobInstance
            /\ msGets' = msGets
            /\ metricBuilder' = <<>>
            /\ UNCHANGED <<txVars, envVars>>) ]_vars

\* an add with a job but with no instance label was refused
C7_Witness ==
  /\ IsAddCall(lastCall)
  /\ lastCall.ret = errNoJobInstance
  /\ ~Missing(lastCall.ls, JobLabel)
  /\ InstanceLabel \notin DOMAIN lastCall.ls

\* C8: Commit on a Bound transaction hands the sink exactly one
\* MetricsData, made of the node recorded at the bind and of the metrics
\* after adjustment, when those metrics are not empty, and hands it
\* nothing when they are empty (or when the build failed).
C8_CommitDelivers ==
  [][ (nOps' = nOps + 1 /\ lastCall'.op = "Commit" /\ ~isNew)
        => IF lastCall'.adjusted # <<>> /\ Len(lastCall'.adjusted[1]) > 0
           THEN sink' = Append(sink, [Node |-> node, Metrics |-> lastCall'.adjusted[1]])
           ELSE sink' = sink ]_vars

\* a Commit has delivered a batch from which the adjuster dropped a metric
C8_Witness ==
  /\ lastCall.op = "Commit"
  /\ Len(sink) = 1
  /\ jobsMap # NoJobsMap
  /\ lastCall.built # <<>>
  /\ Len(lastCall.built[1]) = 2
  /\ Len(sink[1].Metrics) = 1
  /\ sink[1].Node = node

\* a Commit on a Bound transaction has delivered nothing: the batch was
\* empty after adjustment
C8_WitnessEmpty ==
  /\ lastCall.op = "Commit"
  /\ ~isNew
  /\ lastCall.adjusted = <<(<<>>)>>
  /\ BuilderLen >= 1
  /\ sink = <<>>

\* C9: for an instance host[:port] (host and port without a colon) the node
\* has service name job, host name host, attribute port = the port or "80"
\* when there is none, attribute scheme = the scheme; port and scheme are
\* the attributes of every node.
NoColon == StringsUpTo(InstanceAlphabet \ {Colon}, MaxInstanceLen)

C9_NodeConstruction ==
  cnOut # <<>> =>
    LET n == cnOut[1]
    IN  /\ n.ServiceInfo.Name = cnIn.job
        /\ DOMAIN n.Attributes = {portAttr, schemeAttr}
        /\ n.Attributes[schemeAttr] = cnIn.scheme
        /\ \A h \in NoColon :
             /\ cnIn.instance = h =>
                  (n.Identifier.HostName = h /\ n.Attributes[portAttr] = <<"8", "0">>)
             /\ \A p \in NoColon :
                  cnIn.instance = h \o <<Colon>> \o p =>
                    (n.Identifier.HostName = h /\ n.Attributes[portAttr] = p)

\* a node was made of an instance with a host and a port
C9_Witness ==
  /\ cnOut # <<>>
  /\ cnIn.instance = <<"h", Colon, "9">>
  /\ cnIn.job = <<"j">>
  /\ cnOut[1].Attributes[portAttr] = <<"9">>

\* C10: CreateTraceExporter of a config with an empty endpoint returns no
\* exporter and an error whose message holds the config's name and
\* "endpoint"; a config with an endpoint is never refused with that error.
C10_EndpointRequired ==
  (expOut # <<>> /\ expOut[1].op = "CreateTraceExporter") =>
    LET r == expOut[1]
    IN  IF r.config.Endpoint = EmptyStr
        THEN /\ r.exp = <<>>
             /\ r.err # <<>>
             /\ Contains(r.err[1], r.config.NameVal)
             /\ Contains(r.err[1], <<"endpoint">>)
        ELSE \/ r.err = <<>>
             \/ ~Contains(r.err[1], <<"endpoint">>)

\* a config named jaeger_grpc/1 without endpoint was refused
C10_Witness ==
  /\ expOut # <<>>
  /\ expOut[1].op = "CreateTraceExporter"
  /\ expOut[1].config.NameVal = typeStr \o <<"/", "1">>
  /\ expOut[1].config.Endpoint = EmptyStr
  /\ expOut[1].err # <<>>


\* C11: CreateMetricsExporter returns no exporter and the error
\* ErrDataTypeIsNotSupported for every config, with or without endpoint.
C11_MetricsNotSupported ==
  (expOut # <<>> /\ expOut[1].op = "CreateMetricsExporter") =>
    (expOut[1].exp = <<>> /\ expOut[1].err = <<ErrDataTypeIsNotSupported>>)

\* a metrics exporter was asked for a config that has an endpoint
C11_Witness ==
  /\ expOut # <<>>
  /\ expOut[1].op = "CreateMetricsExporter"
  /\ expOut[1].config.Endpoint = <<"a", Colon>>
  /\ expOut[1].err # <<>>


\* C12: IsEnabled is true exactly when some protocol of the map is not
\* disabled; it is false when all are disabled and when the map is empty.
C12_EnabledIffSomeProtocol ==
  (expOut # <<>> /\ expOut[1].op = "IsEnabled") =>
    LET ps == expOut[1].Protocols
    IN  /\ expOut[1].enabled = (\E p \in DOMAIN ps : ps[p].Disabled = FALSE)
        /\ (DOMAIN ps = {} => expOut[1].enabled = FALSE)

\* IsEnabled answered true for a map of three protocols of which only the
\* last one visited is not disabled
C12_Witness ==
  /\ expOut # <<>>
  /\ expOut[1].op = "IsEnabled"
  /\ DOMAIN expOut[1].Protocols = ProtocolNames
  /\ expOut[1].Protocols[expOut[1].order[1]].Disabled
  /\ expOut[1].Protocols[expOut[1].order[2]].Disabled
  /\ ~expOut[1].Protocols[expOut[1].order[3]].Disabled
  /\ expOut[1].enabled


\* C13 (as claimed): the type of the config that a factory's
\* CreateDefaultConfig returns is the factory's Type(), for every factory.
C13_DefaultConfigHasFactoryType ==
  (expOut # <<>> /\ expOut[1].op = "CreateDefaultConfig") =>
    ConfigType(expOut[1].config) = FactoryType(expOut[1].factory)


\* C14: a Commit that adjusts reads the JobsMap entry of the (job,
\* instance) of the sample that bound the transaction, once; a Commit of a
\* transaction made without JobsMap reads none and delivers the batch as
\* built.
C14_AdjusterOfTheBoundTarget ==
  [][ (nOps' = nOps + 1 /\ lastCall'.op = "Commit" /\ ~isNew /\ lastCall'.built # <<>>)
        => IF jobsMap # NoJobsMap
           THEN jobsMapGets' = Append(jobsMapGets,
                  <<boundBy[1][JobLabel], boundBy[1][InstanceLabel]>>)
           ELSE /\ jobsMapGets' = jobsMapGets
                /\ lastCall'.adjusted = lastCall'.built
                /\ (Len(lastCall'.built[1]) > 0 =>
                      sink' = Append(sink, [Node |-> node, Metrics |-> lastCall'.built[1]])) ]_vars

\* a Commit has read the adjuster of job k, the job of the sample that
\* bound the transaction, after a sample of job j was added
C14_Witness ==
  /\ lastCall.op = "Commit"
  /\ jobsMapGets = << <<(<<"k">>), <<"h", ":", "9">> >> >>
  /\ BuilderLen = 2
  /\ boundBy # <<>>
  /\ boundBy[1][JobLabel] = <<"k">>


\* C15: a transaction binds at most once. The add that binds it is not
\* NaN, is not cancelled, has a job and an instance and made one metadata
\* lookup; it sets the node and the builder. Every add on a bound
\* transaction, whatever its labels, leaves it bound with the same job,
\* instance and node, makes no metadata lookup, and leaves the builder as
\* it was or with its value appended.
C15_BindsAtMostOnce ==
  [][ (nOps' = nOps + 1 /\ IsAddCall(lastCall'))
        => /\ (isNew /\ ~isNew')
                => /\ lastCall'.v # NaN
                   /\ ~ctxDone
                   /\ ~Missing(lastCall'.ls, JobLabel)
                   /\ ~Missing(lastCall'.ls, InstanceLabel)
                   /\ msGets' = msGets + 1
                   /\ Len(node') = 1
                   /\ node'[1].ServiceInfo.Name = lastCall'.ls[JobLabel]
                   /\ Len(metricBuilder') = 1
                   /\ boundBy' = <<lastCall'.ls>>
           /\ ~isNew
                => /\ ~isNew'
                   /\ job' = job /\ instance' = instance
                   /\ node' = node
                   /\ msGets' = msGets
                   /\ boundBy' = boundBy
                   /\ \/ metricBuilder' = metricBuilder
                      \/ metricBuilder' = <<Append(metricBuilder[1], lastCall'.v)>> ]_vars

\* a transaction bound by a sample of job j has taken a second sample, of
\* job k, into the same builder, with the node of job j and one lookup
C15_Witness ==
  /\ IsAddCall(lastCall)
  /\ ~isNew
  /\ boundBy = <<FullLabels>>
  /\ Get(lastCall.ls, JobLabel) = <<"k">>
  /\ lastCall.ret = nil
  /\ BuilderLen = 2
  /\ node[1].ServiceInfo.Name = <<"j">>
  /\ msGets = 1


\* the call was an add that tried to bind the transaction and failed
BindFailed(c) ==
  IsAddCall(c) /\ c.ret \in {errNoJobInstance, errMetadataUnknown}

\* C16: a bind that fails leaves the transaction New. The add returns
\* errNoJobInstance exactly when the job or the instance is missing (no
\* lookup made) and the error of the lookup otherwise (one lookup made);
\* no node and no builder exist afterwards; a Commit that follows returns
\* nil and delivers nothing; an add that follows and has a job and an
\* instance makes the lookup again, and binds unless the lookup fails.
C16_FailedBindStaysNew ==
  [][ /\ (nOps' = nOps + 1 /\ IsAddCall(lastCall') /\ isNew
            /\ lastCall'.v # NaN /\ ~ctxDone)
        => /\ (Missing(lastCall'.ls, JobLabel) \/ Missing(lastCall'.ls, InstanceLabel))
                <=> lastCall'.ret = errNoJobInstance
           /\ lastCall'.ret = errNoJobInstance => msGets' = msGets
           /\ lastCall'.ret = errMetadataUnknown => msGets' = msGets + 1
           /\ BindFailed(lastCall')
                => /\ isNew'
                   /\ node' = <<>> /\ metricBuilder' = <<>>
                   /\ job' = EmptyStr /\ instance' = EmptyStr
                   /\ sink' = sink
      /\ (nOps' = nOps + 1 /\ BindFailed(lastCall) /\ lastCall'.op = "Commit")
        => lastCall'.ret = nil /\ sink' = sink
      /\ (nOps' = nOps + 1 /\ BindFailed(lastCall) /\ IsAddCall(lastCall')
            /\ lastCall'.v # NaN /\ ~ctxDone
            /\ ~Missing(lastCall'.ls, JobLabel) /\ ~Missing(lastCall'.ls, InstanceLabel))
        => /\ msGets' = msGets + 1
           /\ (lastCall'.ret # errMetadataUnknown => ~isNew') ]_vars

\* the lookup failed on the first add, the second add made it again and
\* bound the transaction
C16_Witness ==
  /\ IsAddCall(lastCall)
  /\ msGets = 2
  /\ nOps = 2
  /\ ~isNew
  /\ BuilderLen = 1


\* C17: Commit on a bound transaction propagates failures. When Build
\* fails, Commit returns its error and the sink is not called; when the
\* sink is called, Commit returns what the sink returned; Commit returns
\* nil only when the batch was empty and nothing was delivered, or when
\* the sink took the batch and returned nil.
C17_CommitPropagatesFailures ==
  [][ (nOps' = nOps + 1 /\ lastCall'.op = "Commit" /\ ~isNew)
        => /\ lastCall'.buildFails
                => lastCall'.ret = errBuild /\ sink' = sink
           /\ ~lastCall'.buildFails
                => /\ lastCall'.adjusted # <<>>
                   /\ IF Len(lastCall'.adjusted[1]) > 0
                      THEN /\ Len(sink') = Len(sink) + 1
                           /\ lastCall'.ret = lastCall'.consumeErr
                      ELSE /\ sink' = sink
                           /\ lastCall'.ret = nil
           /\ lastCall'.ret = nil
                => \/ sink' = sink /\ ~lastCall'.buildFails
                                   /\ lastCall'.adjusted = << <<>> >>
                   \/ Len(sink') = Len(sink) + 1 /\ lastCall'.consumeErr = nil ]_vars

\* the sink was handed a batch and refused it; Commit returned its error
C17_Witness ==
  /\ lastCall.op = "Commit"
  /\ lastCall.ret = errConsume
  /\ lastCall.consumeErr = errConsume
  /\ Len(sink) = 1

\* Build failed: Commit returned the error of Build and the sink was not called
C17_WitnessBuild ==
  /\ lastCall.op = "Commit"
  /\ lastCall.ret = errBuild
  /\ BuilderLen = 1
  /\ sink = <<>>

====
